---- MODULE Spec2Model ----
\* Model of Number::from_str (src/src/value.rs): the lexical state machine
\* over the input characters, the unit-multiplier table, and the final
\* f64::from_str of the accumulated buffer.  A character is a one-character
\* string; "mu" stands for the non-ASCII alphabetic character U+00B5.
EXTENDS Integers, Sequences, FiniteSets, TLC

\* ---------------------------------------------------------------- bounds
MaxLen == 4
MaxBody == 4
MaxTail == 2
MaxMBody == 2
MaxRest == 2

\* ------------------------------------------------------------ characters
DigitChars == <<"0", "1", "2", "3", "4", "5", "6", "7", "8", "9">>
LowerChars == <<"a", "b", "c", "d", "e", "f", "g", "h", "i", "j", "k", "l", "m",
                "n", "o", "p", "q", "r", "s", "t", "u", "v", "w", "x", "y", "z">>
UpperChars == <<"A", "B", "C", "D", "E", "F", "G", "H", "I", "J", "K", "L", "M",
                "N", "O", "P", "Q", "R", "S", "T", "U", "V", "W", "X", "Y", "Z">>
Digits == {DigitChars[i] : i \in 1..10}
NonAsciiAlpha == {"mu"}

IsDigit(c) == c \in Digits
IsAsciiAlphabeticLowerOnly(c) ==
    \E i \in 1..26 : LowerChars[i] = c
IsAsciiAlphabeticUnicode(c) ==
    (\E i \in 1..26 : LowerChars[i] = c \/ UpperChars[i] = c) \/ c \in NonAsciiAlpha
IsAsciiAlphabetic(c) ==
    \E i \in 1..26 : LowerChars[i] = c \/ UpperChars[i] = c
ToAsciiUppercase(c) ==
    IF \E i \in 1..26 : LowerChars[i] = c
    THEN UpperChars[CHOOSE i \in 1..26 : LowerChars[i] = c]
    ELSE c
DigitVal(c) == CHOOSE i \in 0..9 : DigitChars[i + 1] = c

\* String::to_ascii_uppercase over a sequence of characters
UpperSeq(s) == [i \in 1..Len(s) |-> ToAsciiUppercase(s[i])]

\* ------------------------------------------------------ decimal numbers
\* An exact decimal m * 10^x, normalised so equal numbers are equal records.
RECURSIVE Norm(_)
Norm(d) ==
    IF d.m = 0 THEN [m |-> 0, x |-> 0]
    ELSE IF d.m % 10 = 0 THEN Norm([m |-> d.m \div 10, x |-> d.x + 1])
    ELSE d

RECURSIVE DigitsValue(_)
DigitsValue(s) ==
    IF s = <<>> THEN 0
    ELSE DigitsValue(SubSeq(s, 1, Len(s) - 1)) * 10 + DigitVal(s[Len(s)])

\* ------------------------------------------------------------- bignums
\* A natural number as little-endian base-2^15 limbs without high zeros.
LimbBase == 32768
RECURSIVE BTrim(_)
BTrim(a) == IF a # <<>> /\ a[Len(a)] = 0 THEN BTrim(SubSeq(a, 1, Len(a) - 1)) ELSE a
RECURSIVE BFromNat(_)
BFromNat(n) == IF n = 0 THEN <<>> ELSE <<n % LimbBase>> \o BFromNat(n \div LimbBase)
RECURSIVE BCmpTop(_, _, _)
BCmpTop(a, b, i) ==
    IF i = 0 THEN 0
    ELSE IF a[i] > b[i] THEN 1 ELSE IF a[i] < b[i] THEN -1
    ELSE BCmpTop(a, b, i - 1)
BCmp(a, b) ==
    IF Len(a) > Len(b) THEN 1 ELSE IF Len(a) < Len(b) THEN -1
    ELSE BCmpTop(a, b, Len(a))
Limb(a, i) == IF i <= Len(a) THEN a[i] ELSE 0
RECURSIVE BAddC(_, _, _, _)
BAddC(a, b, i, c) ==
    IF i > Len(a) /\ i > Len(b) THEN (IF c = 0 THEN <<>> ELSE <<c>>)
    ELSE LET t == Limb(a, i) + Limb(b, i) + c
         IN <<t % LimbBase>> \o BAddC(a, b, i + 1, t \div LimbBase)
BAdd(a, b) == BAddC(a, b, 1, 0)
RECURSIVE BSubC(_, _, _, _)
BSubC(a, b, i, c) ==
    IF i > Len(a) THEN <<>>
    ELSE LET t == a[i] - Limb(b, i) - c
         IN IF t < 0 THEN <<t + LimbBase>> \o BSubC(a, b, i + 1, 1)
            ELSE <<t>> \o BSubC(a, b, i + 1, 0)
\* a - b for a >= b
BSub(a, b) == BTrim(BSubC(a, b, 1, 0))
RECURSIVE BMulSmallC(_, _, _, _)
BMulSmallC(a, s, i, c) ==
    IF i > Len(a) THEN (IF c = 0 THEN <<>> ELSE <<c>>)
    ELSE LET t == a[i] * s + c
         IN <<t % LimbBase>> \o BMulSmallC(a, s, i + 1, t \div LimbBase)
\* a * s for 0 <= s <= 2^15
BMulSmall(a, s) == IF s = 0 THEN <<>> ELSE BTrim(BMulSmallC(a, s, 1, 0))
RECURSIVE BMul(_, _)
BMul(a, b) ==
    IF b = <<>> THEN <<>>
    ELSE LET hi == BMul(a, Tail(b))
         IN BAdd(BMulSmall(a, b[1]), IF hi = <<>> THEN <<>> ELSE <<0>> \o hi)
\* a * 2^n
BShl(a, n) ==
    IF a = <<>> THEN <<>>
    ELSE [i \in 1..(n \div 15) |-> 0] \o BMulSmall(a, 2^(n % 15))
RECURSIVE BDivSmallC(_, _, _, _)
BDivSmallC(a, d, i, r) ==
    IF i = 0 THEN <<>>
    ELSE LET t == r * LimbBase + a[i]
         IN BDivSmallC(a, d, i - 1, t % d) \o <<t \div d>>
\* floor(a / d) for 1 <= d <= 2^15
BDivSmall(a, d) == BTrim(BDivSmallC(a, d, Len(a), 0))
RECURSIVE SmallBitLen(_)
SmallBitLen(n) == IF n = 0 THEN 0 ELSE 1 + SmallBitLen(n \div 2)
BitLen(a) == IF a = <<>> THEN 0 ELSE (Len(a) - 1) * 15 + SmallBitLen(a[Len(a)])
RECURSIVE BPow(_, _)
\* b^n by squaring
BPow(b, n) ==
    IF n = 0 THEN <<1>>
    ELSE LET h == BPow(b, n \div 2)
             h2 == BMul(h, h)
         IN IF n % 2 = 0 THEN h2 ELSE BMulSmall(h2, b)
\* the largest digit d in lo..hi with qs * d <= r
RECURSIVE BDigit(_, _, _, _)
BDigit(qs, r, lo, hi) ==
    IF lo = hi THEN lo
    ELSE LET mid == (lo + hi + 1) \div 2
         IN IF BCmp(BMulSmall(qs, mid), r) <= 0 THEN BDigit(qs, r, mid, hi)
            ELSE BDigit(qs, r, lo, mid - 1)
\* schoolbook long division of r by q, one base-2^15 digit per step, for
\* r < q * 2^(15 * k); n holds the quotient digits found so far
RECURSIVE BDivLoop(_, _, _, _)
BDivLoop(q, k, n, r) ==
    IF k = 0 THEN [quot |-> BTrim(n), rem |-> r]
    ELSE LET qs == BShl(q, 15 * (k - 1))
             d == BDigit(qs, r, 0, LimbBase - 1)
         IN BDivLoop(q, k - 1, <<d>> \o n, BSub(r, BMulSmall(qs, d)))

\* ------------------------------------------------------------- doubles
\* A finite double as (-1)^neg * sig * 2^e with sig odd; zero has sig = <<>>
\* (both signed zeros compare equal under f64 ==, so zero is kept unsigned).
Zero == [neg |-> FALSE, sig |-> <<>>, e |-> 0]
RECURSIVE TrailingZeros(_)
TrailingZeros(n) == IF n % 2 = 1 THEN 0 ELSE 1 + TrailingZeros(n \div 2)
\* s * 2^e with the factors of two of s moved into e (s > 0)
RECURSIVE OddPart(_, _)
OddPart(s, e) ==
    IF s[1] = 0 THEN OddPart(Tail(s), e + 15)
    ELSE [sig |-> BDivSmall(s, 2^TrailingZeros(s[1])), e |-> e + TrailingZeros(s[1])]
\* p/q (p, q > 0) rounded to 53 significant bits, ties to even
RoundRat(p, q) ==
    LET sh == 54 - (BitLen(p) - BitLen(q))
        pp == IF sh >= 0 THEN BShl(p, sh) ELSE p
        qq == IF sh >= 0 THEN q ELSE BShl(q, -sh)
        dv == BDivLoop(qq, 4, <<>>, pp)
        n == dv.quot
        extra == BitLen(n) - 53
        low == n[1] % (2^extra)
        half == 2^(extra - 1)
        sig0 == BDivSmall(n, 2^extra)
        up == low > half \/ (low = half /\ (dv.rem # <<>> \/ sig0[1] % 2 = 1))
    IN OddPart(IF up THEN BAdd(sig0, <<1>>) ELSE sig0, extra - sh)
\* the double nearest the exact decimal m * 10^x: f64::from_str and the
\* float literals 1e12 .. 1e-15 are correctly rounded (no overflow or
\* subnormal result is reachable within the bounds)
RoundDec(d) ==
    IF d.m = 0 THEN Zero
    ELSE LET mag == BFromNat(IF d.m < 0 THEN -d.m ELSE d.m)
             rd == IF d.x >= 0 THEN RoundRat(BMul(mag, BPow(5, d.x)), <<1>>)
                   ELSE RoundRat(mag, BPow(5, -d.x))
         IN [neg |-> d.m < 0, sig |-> rd.sig, e |-> rd.e + d.x]
\* IEEE product of two doubles, rounded to nearest, ties to even
F64Mul(u, v) ==
    IF u.sig = <<>> \/ v.sig = <<>> THEN Zero
    ELSE LET pr == RoundRat(BMul(u.sig, v.sig), <<1>>)
         IN [neg |-> u.neg # v.neg, sig |-> pr.sig, e |-> pr.e + u.e + v.e]

\* `v * mult`: the parsed double times the double literal 10^k
Mul(d, k) == F64Mul(RoundDec(d), RoundDec([m |-> 1, x |-> k]))

\* ------------------------------------------------------- f64::from_str
\* Float ::= Sign? ( Digit+ | Digit+ '.' Digit* | Digit* '.' Digit+ ) Exp?
\* Exp   ::= ('e' | 'E') Sign? Digit+
StripSign(s) == IF Len(s) > 0 /\ s[1] \in {"+", "-"} THEN Tail(s) ELSE s
SignOf(s) == IF Len(s) > 0 /\ s[1] = "-" THEN -1 ELSE 1
ExpIdx(s) ==
    IF \E i \in 1..Len(s) : s[i] \in {"e", "E"}
    THEN CHOOSE i \in 1..Len(s) : s[i] \in {"e", "E"} /\ \A j \in 1..(i - 1) : s[j] \notin {"e", "E"}
    ELSE 0
Mantissa(s) ==
    LET b == StripSign(s) IN IF ExpIdx(b) = 0 THEN b ELSE SubSeq(b, 1, ExpIdx(b) - 1)
ExpPart(s) ==
    LET b == StripSign(s) IN IF ExpIdx(b) = 0 THEN <<>> ELSE SubSeq(b, ExpIdx(b) + 1, Len(b))
PointCount(s) == Cardinality({i \in 1..Len(s) : s[i] = "."})
AllDigits(s) == \A i \in 1..Len(s) : IsDigit(s[i])
IntDigits(mant) ==
    IF PointCount(mant) = 0 THEN mant
    ELSE SubSeq(mant, 1, (CHOOSE i \in 1..Len(mant) : mant[i] = ".") - 1)
FracDigits(mant) ==
    IF PointCount(mant) = 0 THEN <<>>
    ELSE SubSeq(mant, (CHOOSE i \in 1..Len(mant) : mant[i] = ".") + 1, Len(mant))

F64Ok(s) ==
    LET mant == Mantissa(s)
        ex == ExpPart(s)
    IN /\ Len(s) > 0
       /\ \A i \in 1..Len(mant) : IsDigit(mant[i]) \/ mant[i] = "."
       /\ PointCount(mant) <= 1
       /\ \E i \in 1..Len(mant) : IsDigit(mant[i])
       /\ ExpIdx(StripSign(s)) = 0
          \/ (Len(StripSign(ex)) >= 1 /\ AllDigits(StripSign(ex)))

F64Value(s) ==
    LET mant == Mantissa(s)
        ex == ExpPart(s)
    IN Norm([m |-> SignOf(s) * DigitsValue(IntDigits(mant) \o FracDigits(mant)),
             x |-> SignOf(ex) * DigitsValue(StripSign(ex)) - Len(FracDigits(mant))])

\* ------------------------------------------------------ unit multiplier
\* the letters of the `match c.to_ascii_uppercase()` with a multiplier
KnownUnits == {"T", "G", "X", "K", "M", "U", "N", "P", "F"}
\* mult as a power of ten; `rest` is raw.take(2) for the 'M' arm
UnitMultFemtoAsPico(u, rest) ==
    CASE u = "T" -> 12
      [] u = "G" -> 9
      [] u = "X" -> 6
      [] u = "K" -> 3
      [] u = "M" -> IF UpperSeq(rest) = <<"E", "G">> THEN 6 ELSE -3
      [] u = "U" -> -6
      [] u = "N" -> -9
      [] u = "P" -> -12
      [] u = "F" -> -12
UnitMultNoCaseFold(u, rest) ==
    CASE u = "T" -> 12
      [] u = "G" -> 9
      [] u = "X" -> 6
      [] u = "K" -> 3
      [] u = "M" -> IF rest = <<"E", "G">> THEN 6 ELSE -3
      [] u = "U" -> -6
      [] u = "N" -> -9
      [] u = "P" -> -12
      [] u = "F" -> -15
UnitMult(u, rest) ==
    CASE u = "T" -> 12
      [] u = "G" -> 9
      [] u = "X" -> 6
      [] u = "K" -> 3
      [] u = "M" -> IF UpperSeq(rest) = <<"E", "G">> THEN 6 ELSE -3
      [] u = "U" -> -6
      [] u = "N" -> -9
      [] u = "P" -> -12
      [] u = "F" -> -15

IsExpMarkerLowerOnly(c) == c = "e"
IsExpMarker(c) == c \in {"e", "E"}

\* '+' | '-' | '0'..='9' of the Start/ExpStart arm
IsSignOrDigitOrPoint(c) == c \in {"+", "-", "."} \/ IsDigit(c)
IsSignOrDigit(c) == c \in {"+", "-"} \/ IsDigit(c)

\* '.' is pushed only when the current state is Int
PointAllowedAlways(st) == st \in {"Int", "Float"}
PointAllowed(st) == st = "Int"

\* -------------------------------------------------------------- inputs
GenAlphabet == {"0", "1", ".", "+", "-", "e", "E", "k", "w", "/", "mu"}
SuffixLetters == {"t", "T", "g", "G", "x", "X", "k", "K", "m", "M",
                  "u", "U", "n", "N", "p", "P", "f", "F", "w", "W"}
TailAlphabet == {"e", "E", "g", "G"}
Strings(A, lo, hi) == UNION {[1..n -> A] : n \in lo..hi}
GenInputs == Strings(GenAlphabet, 0, MaxLen)
Bodies == {sg \o core : sg \in {<<>>, <<"+">>, <<"-">>},
                        core \in Strings({"1", "."}, 1, MaxBody)}
SuffixInputs == {b \o <<l>> \o t : b \in Bodies, l \in SuffixLetters,
                                   t \in Strings(TailAlphabet, 0, MaxTail)}
\* an 'M'/'m' suffix, two lookahead characters, then text the lexer would
\* reject were it ever read
RestAlphabet == {"o", "5", "/", "mu", "."}
MBodies == {b \in Bodies : Len(b) <= MaxMBody}
MInputs == {b \o <<l>> \o la \o r : b \in MBodies, l \in {"m", "M"},
                                    la \in Strings(TailAlphabet, 2, 2),
                                    r \in Strings(RestAlphabet, 1, MaxRest)}
Inputs == GenInputs \cup SuffixInputs \cup MInputs

\* Mul over the parsed values the inputs can produce, evaluated once;
\* MulOf(d, k) = Mul(d, k) for every d and k
MultExps == {0, 12, 9, 6, 3, -3, -6, -9, -12, -15}
ParsedValues == {F64Value(b) : b \in {s \in GenInputs \cup Bodies : F64Ok(s)}}
MulMemo == {<<p, Mul(p[1], p[2])>> : p \in ParsedValues \X MultExps}
MulOf(d, k) ==
    IF <<d, k>> \in ParsedValues \X MultExps
    THEN (CHOOSE t \in MulMemo : t[1] = <<d, k>>)[2]
    ELSE Mul(d, k)

\* ------------------------------------------------------------- results
NoValue == Zero
NoResult == [kind |-> "None", value |-> NoValue, raw |-> <<>>]
ErrResult(k) == [kind |-> k, value |-> NoValue, raw |-> <<>>]
OkResultRawIsBuffer(s, buf, k) == [kind |-> "Ok", value |-> MulOf(F64Value(buf), k), raw |-> buf]
OkResult(s, buf, k) == [kind |-> "Ok", value |-> MulOf(F64Value(buf), k), raw |-> s]

\* --------------------------------------------------------------- state
VARIABLES input, pos, state, value_str, mult, pc, result
vars == <<input, pos, state, value_str, mult, pc, result>>

Init ==
    /\ input \in Inputs
    /\ pos = 0
    /\ state = "Start"
    /\ value_str = <<>>
    /\ mult = 0
    /\ pc = "loop"
    /\ result = NoResult

EndOfInputOffByOne ==
    /\ pc = "loop"
    /\ pos = Len(input)
    /\ IF Len(value_str) > 1
       THEN pc' = "parse" /\ UNCHANGED result
       ELSE pc' = "done" /\ result' = ErrResult("Empty")
    /\ UNCHANGED <<input, pos, state, value_str, mult>>

\* raw.next() is None: break if the buffer is non-empty, else Empty
EndOfInput ==
    /\ pc = "loop"
    /\ pos = Len(input)
    /\ IF Len(value_str) > 0
       THEN pc' = "parse" /\ UNCHANGED result
       ELSE pc' = "done" /\ result' = ErrResult("Empty")
    /\ UNCHANGED <<input, pos, state, value_str, mult>>

\* NumParseState::Start | NumParseState::ExpStart arm
StartStep ==
    /\ pc = "loop"
    /\ pos < Len(input)
    /\ state \in {"Start", "ExpStart"}
    /\ pos' = pos + 1
    /\ LET c == input[pos + 1] IN
       IF IsSignOrDigit(c)
       THEN /\ value_str' = Append(value_str, c)
            /\ state' = IF state = "Start" THEN "Int" ELSE "Exp"
            /\ UNCHANGED <<pc, result>>
       ELSE /\ pc' = "done"
            /\ result' = ErrResult("Invalid")
            /\ UNCHANGED <<state, value_str>>
    /\ UNCHANGED <<input, mult>>

\* NumParseState::Int | NumParseState::Float arm
IntStep ==
    /\ pc = "loop"
    /\ pos < Len(input)
    /\ state \in {"Int", "Float"}
    /\ LET c == input[pos + 1] IN
       CASE IsDigit(c) ->
              /\ value_str' = Append(value_str, c) /\ state' = "Int"
              /\ pos' = pos + 1 /\ UNCHANGED <<pc, result, mult>>
         [] c = "." /\ PointAllowed(state) ->
              /\ value_str' = Append(value_str, c) /\ state' = "Float"
              /\ pos' = pos + 1 /\ UNCHANGED <<pc, result, mult>>
         [] c = "." /\ ~PointAllowed(state) ->
              /\ pc' = "done" /\ result' = ErrResult("Invalid")
              /\ pos' = pos + 1 /\ UNCHANGED <<value_str, state, mult>>
         [] IsExpMarker(c) ->
              /\ value_str' = Append(value_str, c) /\ state' = "ExpStart"
              /\ pos' = pos + 1 /\ UNCHANGED <<pc, result, mult>>
         [] IsAsciiAlphabetic(c) /\ ToAsciiUppercase(c) = "M" ->
              \* raw.take(2) consumes up to two more characters
              /\ mult' = UnitMult("M", SubSeq(input, pos + 2, IF pos + 3 <= Len(input) THEN pos + 3 ELSE Len(input)))
              /\ pos' = IF pos + 3 <= Len(input) THEN pos + 3 ELSE Len(input)
              /\ pc' = "parse" /\ UNCHANGED <<value_str, state, result>>
         [] IsAsciiAlphabetic(c) /\ ToAsciiUppercase(c) \in KnownUnits \ {"M"} ->
              /\ mult' = UnitMult(ToAsciiUppercase(c), <<>>)
              /\ pos' = pos + 1
              /\ pc' = "parse" /\ UNCHANGED <<value_str, state, result>>
         [] IsAsciiAlphabetic(c) /\ ToAsciiUppercase(c) \notin KnownUnits ->
              /\ pc' = "done" /\ result' = ErrResult("InvalidMult")
              /\ pos' = pos + 1 /\ UNCHANGED <<value_str, state, mult>>
         [] OTHER ->
              /\ pc' = "done" /\ result' = ErrResult("Invalid")
              /\ pos' = pos + 1 /\ UNCHANGED <<value_str, state, mult>>
    /\ UNCHANGED input

ExpStepResolvesUnit ==
    /\ pc = "loop"
    /\ pos < Len(input)
    /\ state = "Exp"
    /\ pos' = pos + 1
    /\ LET c == input[pos + 1] IN
       CASE IsDigit(c) -> value_str' = Append(value_str, c) /\ UNCHANGED <<pc, result>>
         [] IsAsciiAlphabetic(c) -> pc' = "done" /\ result' = ErrResult("InvalidMult") /\ UNCHANGED value_str
         [] OTHER -> pc' = "parse" /\ UNCHANGED <<value_str, result>>
    /\ UNCHANGED <<input, state, mult>>

\* NumParseState::Exp arm
ExpStep ==
    /\ pc = "loop"
    /\ pos < Len(input)
    /\ state = "Exp"
    /\ pos' = pos + 1
    /\ LET c == input[pos + 1] IN
       IF IsDigit(c)
       THEN value_str' = Append(value_str, c) /\ UNCHANGED pc
       ELSE pc' = "parse" /\ UNCHANGED value_str
    /\ UNCHANGED <<input, state, mult, result>>

\* value_str.parse::<f64>() and the result
Finish ==
    /\ pc = "parse"
    /\ pc' = "done"
    /\ result' = IF F64Ok(value_str) THEN OkResult(input, value_str, mult)
                 ELSE ErrResult("Invalid")
    /\ UNCHANGED <<input, pos, state, value_str, mult>>

Next == EndOfInput \/ StartStep \/ IntStep \/ ExpStep \/ Finish

Spec == Init /\ [][Next]_vars

\* ================================================================ claims
\* the resolver's numeric body: sign? digit (digit | one '.')*
ValidBody(b) ==
    /\ Len(b) >= 1
    /\ LET c == StripSign(b) IN
         /\ Len(c) >= 1
         /\ IsDigit(c[1])
         /\ \A i \in 1..Len(c) : IsDigit(c[i]) \/ c[i] = "."
         /\ PointCount(c) <= 1
\* a body followed by an optional e/E, optional sign and digits
ValidLiteral(s) ==
    LET b == StripSign(s)
        mant == Mantissa(s)
    IN /\ Len(mant) >= 1
       /\ IsDigit(mant[1])
       /\ \A i \in 1..Len(mant) : IsDigit(mant[i]) \/ mant[i] = "."
       /\ PointCount(mant) <= 1
       /\ \/ ExpIdx(b) = 0
          \/ Len(StripSign(ExpPart(s))) >= 1 /\ AllDigits(StripSign(ExpPart(s)))
AsciiLetters == {LowerChars[i] : i \in 1..26} \cup {UpperChars[i] : i \in 1..26}
BodyChars == Digits \cup {"+", "-", "."}
BodyLen(s) ==
    IF \E i \in 1..Len(s) : s[i] \notin BodyChars
    THEN (CHOOSE i \in 1..Len(s) : s[i] \notin BodyChars /\ \A j \in 1..(i - 1) : s[j] \in BodyChars) - 1
    ELSE Len(s)
BodyOf(s) == SubSeq(s, 1, BodyLen(s))
SuffixOf(s) == ToAsciiUppercase(s[BodyLen(s) + 1])
\* input = b ++ L ++ t with b a valid body and L an ASCII letter
HasSuffix(s) ==
    /\ Len(s) > BodyLen(s)
    /\ ValidBody(BodyOf(s))
    /\ s[BodyLen(s) + 1] \in AsciiLetters
ClaimMultiplier == [u \in {"T", "G", "X", "K", "U", "N", "P", "F"} |->
    CASE u = "T" -> 12 [] u = "G" -> 9 [] u = "X" -> 6 [] u = "K" -> 3
      [] u = "U" -> -6 [] u = "N" -> -9 [] u = "P" -> -12 [] u = "F" -> -15]
Done == pc = "done"

\* C1: whenever from_str succeeds, raw is the whole unmodified input.
RawIsWholeInput == Done /\ result.kind = "Ok" => result.raw = input
RawIsWholeInputWitness ==
    /\ Done /\ result.kind = "Ok" /\ Len(input) >= Len(value_str) + 2
    /\ input[1] = "+"

\* C2: a valid literal without suffix succeeds with the f64 parse of the
\* whole input (multiplier 1.0).
LiteralParses ==
    Done /\ ValidLiteral(input) => result.kind = "Ok" /\ result.value = MulOf(F64Value(input), 0)
LiteralParsesWitness ==
    /\ Done /\ ValidLiteral(input) /\ result.kind = "Ok"
    /\ ExpIdx(StripSign(input)) > 0 /\ PointCount(input) = 1

\* C3: a valid body followed by T,G,X,K,U,N,P,F (either case) and any text
\* succeeds with parse(body) * multiplier(letter).
SuffixScales ==
    Done /\ HasSuffix(input) /\ SuffixOf(input) \in DOMAIN ClaimMultiplier =>
        /\ result.kind = "Ok"
        /\ result.value = MulOf(F64Value(BodyOf(input)), ClaimMultiplier[SuffixOf(input)])
SuffixScalesWitness ==
    /\ Done /\ HasSuffix(input) /\ SuffixOf(input) \in DOMAIN ClaimMultiplier
    /\ Len(input) > BodyLen(input) + 1 /\ result.kind = "Ok"

\* C4: after a valid body, M/m gives 1e6 exactly when the next two
\* characters case-fold to "EG", otherwise 1e-3, and always succeeds; the
\* lexer never reads past the two-character lookahead, so whatever follows
\* it does not affect the result.
MegOrMilli ==
    Done /\ HasSuffix(input) /\ SuffixOf(input) = "M" =>
        LET k == BodyLen(input)
            next2 == SubSeq(input, k + 2, IF k + 3 <= Len(input) THEN k + 3 ELSE Len(input))
        IN /\ result.kind = "Ok"
           /\ result.value = MulOf(F64Value(BodyOf(input)), IF UpperSeq(next2) = <<"E", "G">> THEN 6 ELSE -3)
           /\ pos <= k + 3
MegOrMilliWitness ==
    /\ Done /\ HasSuffix(input) /\ SuffixOf(input) = "M"
    /\ Len(input) > BodyLen(input) + 3
    /\ input[Len(input)] \in {"/", "mu"}
    /\ UpperSeq(SubSeq(input, BodyLen(input) + 2, BodyLen(input) + 3)) = <<"E", "G">>
    /\ SubSeq(input, BodyLen(input) + 2, BodyLen(input) + 3) # <<"E", "G">>
    /\ result.kind = "Ok"

\* C5: in the Exp state any non-digit ends lexing without error and without
\* a suffix; the result is the f64 parse of the buffer with multiplier 1.0.
ExpEndsLexing ==
    /\ [][pc = "loop" /\ state = "Exp" /\ pos < Len(input) /\ ~IsDigit(input[pos + 1])
          => pc' = "parse" /\ mult' = 0 /\ value_str' = value_str]_vars
    /\ [](Done /\ state = "Exp" =>
            /\ mult = 0
            /\ result.kind \in {"Ok", "Invalid"}
            /\ F64Ok(value_str) => result.kind = "Ok" /\ result.value = MulOf(F64Value(value_str), 0))
ExpEndsLexingWitness ==
    /\ Done /\ state = "Exp" /\ result.kind = "Ok"
    /\ input[pos] \in AsciiLetters

\* C6: Empty exactly for the empty input; the only error kinds are Empty,
\* InvalidSyntax and InvalidMultiplier.
EmptyIffNoChars ==
    Done => /\ result.kind = "Empty" <=> Len(input) = 0
            /\ result.kind \in {"Ok", "Empty", "Invalid", "InvalidMult"}
EmptyIffNoCharsWitness == Done /\ result.kind = "Empty"

\* C7 (as stated): a buffer with more than one '.' always ends in
\* InvalidSyntax.
MultiPointInvalid == Done /\ PointCount(value_str) >= 2 => result.kind = "Invalid"
\* C7 (amended): a buffer with more than one '.' never succeeds: it fails
\* with InvalidSyntax, or with InvalidMultiplier when the lexer stops first
\* at an ASCII letter outside the suffix table; adjacent points are rejected
\* by the lexer; a lexer-accepted buffer the f64 parser rejects gives
\* InvalidSyntax.
MultiPointFails ==
    /\ [](Done /\ PointCount(value_str) >= 2 =>
            \/ result.kind = "Invalid"
            \/ /\ result.kind = "InvalidMult"
               /\ input[pos] \in AsciiLetters
               /\ ToAsciiUppercase(input[pos]) \notin {"T", "G", "X", "K", "M", "U", "N", "P", "F", "E"})
    /\ [][pc = "loop" /\ state = "Float" /\ pos < Len(input) /\ input[pos + 1] = "."
          => pc' = "done" /\ result'.kind = "Invalid"]_vars
    /\ [][pc = "parse" /\ ~F64Ok(value_str) => result'.kind = "Invalid"]_vars
MultiPointFailsWitness ==
    Done /\ PointCount(value_str) >= 2 /\ result.kind = "Invalid"

\* C8: signs only first or right after e/E; a bad first character, a sign
\* or other non-alphanumeric non-'.' in the body, or a bad character after
\* e/E gives InvalidSyntax.
IsAlphanumeric(c) == IsDigit(c) \/ c \in AsciiLetters \/ c \in NonAsciiAlpha
SignPlacement ==
    /\ [](\A i \in 1..Len(value_str) :
            value_str[i] \in {"+", "-"} => i = 1 \/ value_str[i - 1] \in {"e", "E"})
    /\ [](Done /\ Len(input) > 0 /\ ~(input[1] \in {"+", "-"} \/ IsDigit(input[1]))
            => result.kind = "Invalid")
    /\ [][(/\ pc = "loop" /\ pos < Len(input)
           /\ LET c == input[pos + 1] IN
                \/ state = "ExpStart" /\ ~(c \in {"+", "-"} \/ IsDigit(c))
                \/ state \in {"Int", "Float"} /\ ~IsAlphanumeric(c) /\ c # ".")
          => pc' = "done" /\ result'.kind = "Invalid"]_vars
SignPlacementWitness ==
    /\ Done /\ result.kind = "Invalid" /\ state \in {"Int", "Float"}
    /\ input[pos] \in {"+", "-"}

\* C9: after a valid body, an ASCII letter other than e/E outside the
\* suffix table gives InvalidMultiplier whatever follows.
UnknownSuffixInvalidMult ==
    Done /\ HasSuffix(input)
         /\ SuffixOf(input) \notin {"T", "G", "X", "K", "M", "U", "N", "P", "F", "E"}
         => result.kind = "InvalidMult"
UnknownSuffixInvalidMultWitness ==
    /\ Done /\ HasSuffix(input)
    /\ SuffixOf(input) \notin {"T", "G", "X", "K", "M", "U", "N", "P", "F", "E"}
    /\ Len(input) > BodyLen(input) + 1 /\ result.kind = "InvalidMult"

\* C10: a non-ASCII alphabetic character read in the Int/Float state gives
\* InvalidSyntax.
NonAsciiLetterInvalid ==
    [][pc = "loop" /\ state \in {"Int", "Float"} /\ pos < Len(input)
       /\ input[pos + 1] \in NonAsciiAlpha
       => pc' = "done" /\ result'.kind = "Invalid"]_vars
NonAsciiLetterInvalidWitness ==
    /\ Done /\ result.kind = "Invalid" /\ state \in {"Int", "Float"}
    /\ input[pos] \in NonAsciiAlpha

====
